---- MODULE Spec2Model ----
(***************************************************************************)
(* A model of the token lifecycle of spotify-tmux: auth.AuthService        *)
(* (Authenticate, HasValidToken, GetToken, GetClient, loadToken,           *)
(* saveToken) and player.PlayerService.getClient with the cached oauth2    *)
(* client, as called by concurrently running goroutines (ui.UI starts the  *)
(* poll loop with "go u.updateLoop()" beside the tview event loop); of the *)
(* requests of player.PlayerService and what it makes of the responses;    *)
(* and of ui.UI with its event loop, its poll loop and Stop.               *)
(*                                                                         *)
(* Time is an integer clock; timestamp 0 is an ordinary instant (Go's zero *)
(* time.Time, "no expiry", is not modelled: the provider always sends an   *)
(* expires_in).  Upstream credentials are numbered in the order issued.    *)
(***************************************************************************)
EXTENDS Integers, Sequences, FiniteSets, TLC

\* ---------------------------------------------------------------- bounds
MaxTime == 2          \* the clock runs 0..MaxTime
TokenLifetime == 3    \* expires_in of every credential the provider issues
MaxIssued == 2        \* credentials the provider issues in one run
MaxCallbacks == 2     \* requests to /callback accepted in one run
MaxLogins == 2        \* calls of Authenticate in one run
MaxStops == 2         \* calls of UI.Stop in one run
MaxKeys == 2          \* keys and buttons the user presses in one run

\* ------------------------------------------------------ program constants
ExpiryDelta == 2      \* oauth2's expiryDelta (10 s), in clock units
StatusOK == 200         \* http.StatusOK
StatusNoContent == 204  \* http.StatusNoContent

\* The goroutines calling into the services: "cmd" runs main and then the
\* commands of the event loop, "poll" is ui.UI.updateLoop.
Tasks == {"cmd", "poll"}
Codes == {"CODE1", "CODE2"}       \* authorization codes a callback may carry
ClientID == "abc"                 \* a.config.ClientID

\* ------------------------------------------------------------ data model
Nil == [kind |-> "nil"]           \* a nil *oauth2.Token / *http.Client
Tok(id, r, e) == [kind |-> "token", access |-> id, refresh |-> r, expiry |-> e]

\* The token file: absent, content that is no JSON document, the empty or
\* incomplete content of a write in progress, or a TokenInfo document.
Absent == [kind |-> "absent"]
Corrupt == [kind |-> "corrupt"]
Partial == [kind |-> "partial"]

\* A record written without the client identifier.
TokenInfoNoClient(tok, cid, at) ==
    [kind |-> "record", token |-> tok, client_id |-> "", last_refresh |-> at]

TokenInfo(tok, cid, at) ==
    [kind |-> "record", token |-> tok, client_id |-> cid, last_refresh |-> at]

\* The Go value of type TokenInfo, json.MarshalIndent of it (each field
\* under the key of its json tag) and json.Unmarshal of a document into it.
NoInfo == [kind |-> "none"]
Struct(tok, cid, at) == [kind |-> "info", Token |-> tok, ClientID |-> cid, LastRefresh |-> at]

\* An encoding that leaves out the refresh credential.
MarshalNoRefresh(info) ==
    TokenInfo(IF info.Token = Nil THEN Nil ELSE [info.Token EXCEPT !.refresh = FALSE],
              info.ClientID, info.LastRefresh)

Marshal(info) == TokenInfo(info.Token, info.ClientID, info.LastRefresh)
Unmarshal(doc) == Struct(doc.token, doc.client_id, doc.last_refresh)

NoStore == [saved |-> NoInfo, loaded |-> NoInfo]

InitExpiries == {0 - 1, ExpiryDelta - 1, TokenLifetime}
InitFiles ==
    {Absent, Corrupt, TokenInfo(Nil, ClientID, 0)}
    \cup {TokenInfo(Tok(0, r, e), ClientID, 0) : r \in BOOLEAN, e \in InitExpiries}

VARIABLES
    now,         \* the wall clock
    token,       \* AuthService.token
    file,        \* the content of AuthService.tokenFile
    client,      \* PlayerService.client: "none" (nil) or the task that built it
    ctok,        \* per oauth2 client built: the token its token source holds
    issued,      \* credentials issued by the provider so far (the last one's id)
    pc,          \* per task: the statement it is at
    op,          \* per task: the public operation it is running
    loc,         \* per task: the locals of its call
    nonces,      \* states generated by Authenticate so far
    mux,         \* http.DefaultServeMux: states whose closures serve /callback
    srv,         \* per task: the http.Server of its Authenticate call
    conns,       \* the requests to /callback accepted so far, with their handlers
    crashed,     \* the process ended by a panic
    returned,    \* history: the results of the Authenticate calls that returned
    saveFailed,  \* history: a write of the token file failed
    ui,          \* ui.UI: its channels, its application and its goroutines
    pl,          \* player.PlayerService: its client and the call in progress
    store        \* history: the TokenInfo last saved, and the one loaded since

vars == <<now, token, file, client, ctok, issued, pc, op, loc, nonces, mux, srv, conns,
          crashed, returned, saveFailed, ui, pl, store>>

NoLoc ==
    [data |-> Absent, info |-> NoInfo, newTok |-> Nil, old |-> Nil, n |-> 0, x |-> 0,
     ret |-> Nil,
     ok |-> FALSE, err |-> "", code |-> "", xcode |-> "", nonce |-> 0, prior |-> {},
     saved |-> FALSE, cl |-> "none"]
NoSrv == [pc |-> "none", inShutdown |-> FALSE]

\* The responses of the API to a request of the player: the status, and
\* for a 200 whether the body is a currently-playing document and what it
\* says.  Kinds are the operations of PlayerService that make one request.
Kinds == {"GetCurrentlyPlaying", "Play", "Pause", "Next", "Previous"}
Statuses == {StatusOK, 202, StatusNoContent, 401}
Responses ==
    {[status |-> StatusOK, body |-> "json", playing |-> p] : p \in BOOLEAN}
    \cup {[status |-> StatusOK, body |-> "garbage", playing |-> FALSE]}
    \cup {[status |-> st, body |-> "text", playing |-> FALSE] : st \in Statuses \ {StatusOK}}

\* player.NewPlayerService: no client yet, no call in progress.  For a call
\* of PlayPause (outer) the record keeps the requests sent so far (log) and
\* what its query reported (q, qstatus).
NoPlayer ==
    [client |-> FALSE, pc |-> "idle", kind |-> "none", calls |-> 0, status |-> 0,
     body |-> "none", err |-> "", playing |-> FALSE,
     outer |-> "none", log |-> <<>>, q |-> "none", qstatus |-> 0]

\* ui.NewUI: the application is not running, stopChan is open, no goroutine
\* of the UI has started.  The last three fields are history.
NoUI ==
    [app |-> "init", ev |-> "none", poll |-> "none", pend |-> "", tick |-> FALSE,
     closed |-> FALSE, text |-> "", stoppc |-> "idle", stops |-> 0, keys |-> 0,
     exited |-> FALSE, quit |-> FALSE, late |-> FALSE, afterQuit |-> FALSE]

Init ==
    /\ now = 0
    /\ token = Nil
    /\ file \in InitFiles
    /\ client = "none"
    /\ ctok = [t \in Tasks |-> Nil]
    /\ issued = 0
    /\ pc = [t \in Tasks |-> "idle"]
    /\ op = [t \in Tasks |-> "none"]
    /\ loc = [t \in Tasks |-> NoLoc]
    /\ nonces = 0
    /\ mux = {}
    /\ srv = [t \in Tasks |-> NoSrv]
    /\ conns = <<>>
    /\ crashed = FALSE
    /\ returned = {}
    /\ saveFailed = FALSE
    /\ ui = NoUI
    /\ pl = NoPlayer
    /\ store = NoStore

\* oauth2.Token.expired and oauth2.Token.Valid at the current clock
Expired(t) == t.expiry - ExpiryDelta < now
Valid(t) == IF t = Nil THEN FALSE ELSE ~Expired(t)

Finish(t, l) == pc' = [pc EXCEPT ![t] = "done"] /\ loc' = [loc EXCEPT ![t] = l]
Goto(t, p) == pc' = [pc EXCEPT ![t] = p]

\* What the provider answers to a code exchange or a refresh it accepts.
Issue == Tok(issued + 1, TRUE, now + TokenLifetime)

authVars == <<nonces, mux, srv, conns, returned>>
tokenVars == <<token, file, client, ctok, issued, saveFailed>>
frontVars == <<ui, pl>>
otherVars == <<frontVars, store>>
coreVars == <<now, tokenVars, pc, op, loc, authVars, store>>

\* ------------------------------------------------------- calls and clock
Begin(t, o, p) ==
    /\ ~crashed
    /\ pc[t] = "idle"
    /\ pc' = [pc EXCEPT ![t] = p]
    /\ op' = [op EXCEPT ![t] = o]
    /\ loc' = [loc EXCEPT ![t] = NoLoc]

CallHasValidToken(t) ==
    /\ t = "cmd"
    /\ Begin(t, "HasValidToken", "hv_start")
    /\ UNCHANGED <<otherVars, now, tokenVars, authVars, crashed>>

CallGetToken(t) ==
    /\ t = "cmd"
    /\ Begin(t, "GetToken", "gt_start")
    /\ UNCHANGED <<otherVars, now, tokenVars, authVars, crashed>>

CallPlayback(t) ==
    /\ Begin(t, "Playback", "pl_start")
    /\ UNCHANGED <<otherVars, now, tokenVars, authVars, crashed>>

CallAuthenticate(t) ==
    /\ nonces < MaxLogins
    /\ pc[t] = "idle"
    /\ ~crashed
    /\ pc' = [pc EXCEPT ![t] = "au_state"]
    /\ op' = [op EXCEPT ![t] = "Authenticate"]
    /\ loc' = [loc EXCEPT ![t] = [NoLoc EXCEPT !.prior = returned]]
    /\ UNCHANGED <<otherVars, now, tokenVars, authVars, crashed>>

Return(t) ==
    /\ ~crashed
    /\ pc[t] = "done"
    /\ pc' = [pc EXCEPT ![t] = "idle"]
    /\ op' = [op EXCEPT ![t] = "none"]
    /\ loc' = [loc EXCEPT ![t] = NoLoc]
    /\ returned' = IF op[t] = "Authenticate"
                   THEN returned \cup {IF loc[t].err = "" THEN "ok" ELSE loc[t].err}
                   ELSE returned
    /\ UNCHANGED <<otherVars, now, tokenVars, nonces, mux, srv, conns, crashed>>

Tick ==
    /\ ~crashed
    /\ now < MaxTime
    /\ now' = now + 1
    /\ UNCHANGED <<otherVars, tokenVars, pc, op, loc, authVars, crashed>>

\* ------------------------------------------------------------- loadToken
\* os.Stat and os.ReadFile: a missing file is an error, else the content.
LtRead(t) ==
    /\ ~crashed
    /\ pc[t] = "lt_read"
    /\ IF file = Absent
       THEN Finish(t, [loc[t] EXCEPT !.err = "token file does not exist"])
       ELSE /\ Goto(t, "lt_parse")
            /\ loc' = [loc EXCEPT ![t].data = file]
    /\ UNCHANGED <<otherVars, now, tokenVars, op, authVars, crashed>>

\* json.Unmarshal and "a.token = tokenInfo.Token".
LtParse(t) ==
    /\ ~crashed
    /\ pc[t] = "lt_parse"
    /\ IF loc[t].data.kind # "record"
       THEN /\ Finish(t, [loc[t] EXCEPT !.err = "json", !.data = Absent])
            /\ UNCHANGED <<token, store>>
       ELSE /\ token' = Unmarshal(loc[t].data).Token
            /\ store' = [store EXCEPT !.loaded = Unmarshal(loc[t].data)]
            /\ Goto(t, IF op[t] = "HasValidToken" THEN "hv_check" ELSE "gt_check")
            /\ loc' = [loc EXCEPT ![t].data = Absent]
    /\ UNCHANGED <<frontVars, now, file, client, ctok, issued, saveFailed, op, authVars, crashed>>

\* --------------------------------------------------------- HasValidToken
HvStart(t) ==
    /\ ~crashed
    /\ pc[t] = "hv_start"
    /\ IF Valid(token)
       THEN Finish(t, [loc[t] EXCEPT !.ok = TRUE])
       ELSE Goto(t, "lt_read") /\ UNCHANGED loc
    /\ UNCHANGED <<otherVars, now, tokenVars, op, authVars, crashed>>

HvCheck(t) ==
    /\ ~crashed
    /\ pc[t] = "hv_check"
    /\ Finish(t, [loc[t] EXCEPT !.ok = Valid(token)])
    /\ UNCHANGED <<otherVars, now, tokenVars, op, authVars, crashed>>

\* -------------------------------------------------------------- GetToken
GtStart(t) ==
    /\ ~crashed
    /\ pc[t] = "gt_start"
    /\ Goto(t, IF token = Nil THEN "lt_read" ELSE "gt_check")
    /\ UNCHANGED <<otherVars, now, tokenVars, op, loc, authVars, crashed>>

\* "if a.token != nil && !a.token.Valid()"; the token source is built from
\* the token read here.
NeedsRefresh(tk) == tk # Nil /\ ~Valid(tk)

GtCheck(t) ==
    /\ ~crashed
    /\ pc[t] = "gt_check"
    /\ IF NeedsRefresh(token)
       THEN Goto(t, "gt_refresh") /\ loc' = [loc EXCEPT ![t].old = token]
       ELSE Goto(t, "gt_return") /\ UNCHANGED loc
    /\ UNCHANGED <<otherVars, now, tokenVars, op, authVars, crashed>>

\* TokenSource(ctx, a.token).Token(): one call to the token endpoint with the
\* refresh credential, answered with a new credential.
GtRefreshOk(t) ==
    /\ ~crashed
    /\ pc[t] = "gt_refresh"
    /\ loc[t].old.refresh
    /\ issued < MaxIssued
    /\ issued' = issued + 1
    /\ loc' = [loc EXCEPT ![t].newTok = Issue, ![t].n = loc[t].n + 1]
    /\ Goto(t, "gt_assign")
    /\ UNCHANGED <<otherVars, now, token, file, client, ctok, saveFailed, op, authVars, crashed>>

\* A failing refresh that also drops the token held in memory.
GtRefreshFailClears(t) ==
    /\ ~crashed
    /\ pc[t] = "gt_refresh"
    /\ token' = Nil
    /\ Finish(t, [loc[t] EXCEPT !.err = "refresh", !.n = loc[t].n + 1])
    /\ UNCHANGED <<otherVars, now, file, client, ctok, issued, saveFailed, op, authVars, crashed>>

\* The same call failing: without a refresh credential before any request is
\* sent, else after the one request the provider rejects.
GtRefreshFail(t) ==
    /\ ~crashed
    /\ pc[t] = "gt_refresh"
    /\ Finish(t, [loc[t] EXCEPT !.err = "refresh",
                                !.n = IF loc[t].old.refresh THEN loc[t].n + 1 ELSE loc[t].n])
    /\ UNCHANGED <<otherVars, now, tokenVars, op, authVars, crashed>>

\* "a.token = newToken", in GetToken and in Authenticate.
Assign(t) ==
    /\ ~crashed
    /\ pc[t] \in {"gt_assign", "au_assign"}
    /\ token' = loc[t].newTok
    /\ Goto(t, "sv_build")
    /\ loc' = [loc EXCEPT ![t].newTok = Nil]
    /\ UNCHANGED <<otherVars, now, file, client, ctok, issued, saveFailed, op, authVars, crashed>>

\* ------------------------------------------------------------- saveToken
\* TokenInfo{Token: a.token, ClientID, LastRefresh: time.Now()}, marshalled.
SvBuild(t) ==
    /\ ~crashed
    /\ pc[t] = "sv_build"
    /\ LET tokenInfo == Struct(token, ClientID, now) IN
         loc' = [loc EXCEPT ![t].info = tokenInfo, ![t].data = Marshal(tokenInfo)]
    /\ Goto(t, "sv_open")
    /\ UNCHANGED <<otherVars, now, tokenVars, op, authVars, crashed>>

\* os.MkdirAll or the open of os.WriteFile failing: the file is untouched.
SvFail(t) ==
    /\ ~crashed
    /\ pc[t] = "sv_open"
    /\ Finish(t, [loc[t] EXCEPT !.err = "save", !.data = Absent, !.info = NoInfo])
    /\ saveFailed' = TRUE
    /\ UNCHANGED <<otherVars, now, token, file, client, ctok, issued, op, authVars, crashed>>

\* What a reader finds in the file between the open of os.WriteFile
\* (O_WRONLY|O_CREATE|O_TRUNC) and the end of its write.
OpenForWrite(old) == Partial

SvOpen(t) ==
    /\ ~crashed
    /\ pc[t] = "sv_open"
    /\ file' = OpenForWrite(file)
    /\ Goto(t, "sv_write")
    /\ UNCHANGED <<otherVars, now, token, client, ctok, issued, saveFailed, op, loc, authVars, crashed>>

SvWrite(t) ==
    /\ ~crashed
    /\ pc[t] = "sv_write"
    /\ file' = loc[t].data
    /\ store' = [saved |-> loc[t].info, loaded |-> NoInfo]
    /\ IF op[t] = "Authenticate"
       THEN Finish(t, [loc[t] EXCEPT !.saved = TRUE, !.data = Absent, !.info = NoInfo])
       ELSE /\ Goto(t, "gt_return")
            /\ loc' = [loc EXCEPT ![t].saved = TRUE, ![t].data = Absent, ![t].info = NoInfo]
    /\ UNCHANGED <<frontVars, now, token, client, ctok, issued, saveFailed, op, authVars, crashed>>

\* "return a.token, nil"; GetClient wraps it in a client, getClient goes on.
GtReturn(t) ==
    /\ ~crashed
    /\ pc[t] = "gt_return"
    /\ IF op[t] = "Playback"
       THEN Goto(t, "pl_set") /\ loc' = [loc EXCEPT ![t].ret = token]
       ELSE Finish(t, [loc[t] EXCEPT !.ret = token, !.ok = TRUE])
    /\ UNCHANGED <<otherVars, now, tokenVars, op, authVars, crashed>>

\* ---------------------------------------- PlayerService.getClient, a call
PlStart(t) ==
    /\ ~crashed
    /\ pc[t] = "pl_start"
    /\ IF client # "none"
       THEN Goto(t, "pl_request") /\ loc' = [loc EXCEPT ![t].cl = client]
       ELSE Goto(t, "gt_start") /\ UNCHANGED loc
    /\ UNCHANGED <<otherVars, now, tokenVars, op, authVars, crashed>>

\* a.config.Client(ctx, token) and "p.client = client".
PlSet(t) ==
    /\ ~crashed
    /\ pc[t] = "pl_set"
    /\ client' = t
    /\ ctok' = [ctok EXCEPT ![t] = loc[t].ret]
    /\ Goto(t, "pl_request")
    /\ loc' = [loc EXCEPT ![t].cl = t]
    /\ UNCHANGED <<otherVars, now, token, file, issued, saveFailed, op, authVars, crashed>>

\* One request through the client: its transport sends the token it holds
\* while that is valid ...
PlRequest(t) ==
    /\ ~crashed
    /\ pc[t] = "pl_request"
    /\ Valid(ctok[loc[t].cl])
    /\ Finish(t, [loc[t] EXCEPT !.ok = TRUE, !.cl = "none"])
    /\ UNCHANGED <<otherVars, now, tokenVars, op, authVars, crashed>>

\* ... and refreshes it first when it has expired: the new credential stays
\* in the client's token source.
PlRequestRefresh(t) ==
    /\ ~crashed
    /\ pc[t] = "pl_request"
    /\ LET c == loc[t].cl IN
        /\ ctok[c] # Nil
        /\ ~Valid(ctok[c])
        /\ ctok[c].refresh
        /\ issued < MaxIssued
        /\ ctok' = [ctok EXCEPT ![c] = Issue]
    /\ issued' = issued + 1
    /\ Finish(t, [loc[t] EXCEPT !.ok = TRUE, !.cl = "none"])
    /\ UNCHANGED <<otherVars, now, token, file, client, saveFailed, op, authVars, crashed>>

\* The request, or the refresh before it, failing.
PlRequestFail(t) ==
    /\ ~crashed
    /\ pc[t] = "pl_request"
    /\ Finish(t, [loc[t] EXCEPT !.err = "request", !.cl = "none"])
    /\ UNCHANGED <<otherVars, now, tokenVars, op, authVars, crashed>>

\* ---------------------------------------------------------- Authenticate
\* generateRandomState failing: Authenticate returns before anything starts.
AuStateFail(t) ==
    /\ ~crashed
    /\ pc[t] = "au_state"
    /\ Finish(t, [loc[t] EXCEPT !.err = "rand"])
    /\ UNCHANGED <<otherVars, now, tokenVars, op, authVars, crashed>>

\* A mux that accepts a second registration of a pattern.
MuxConflictNever(m) == FALSE

\* http.HandleFunc on the default mux panics when the pattern is taken.
MuxConflict(m) == m # {}

\* The state is generated, the closure over (state, codeChan, errChan) is
\* registered for /callback and the server goroutine is started.
AuRegister(t) ==
    /\ ~crashed
    /\ pc[t] = "au_state"
    /\ ~MuxConflict(mux)
    /\ nonces' = nonces + 1
    /\ mux' = mux \cup {nonces + 1}
    /\ srv' = [srv EXCEPT ![t] = [pc |-> "start", inShutdown |-> FALSE]]
    /\ loc' = [loc EXCEPT ![t].nonce = nonces + 1]
    /\ Goto(t, "au_select")
    /\ UNCHANGED <<otherVars, now, tokenVars, op, conns, returned, crashed>>

AuRegisterPanic(t) ==
    /\ ~crashed
    /\ pc[t] = "au_state"
    /\ MuxConflict(mux)
    /\ crashed' = TRUE
    /\ UNCHANGED <<otherVars, now, tokenVars, pc, op, loc, authVars>>

Bound(t) == srv[t].pc = "serving"

\* server.ListenAndServe in its goroutine: after Shutdown it returns
\* ErrServerClosed at once; else it binds :8080, or fails to (the port is
\* taken by another listener of this process or by another process).
SrvListen(t) ==
    /\ ~crashed
    /\ srv[t].pc = "start"
    /\ IF srv[t].inShutdown
       THEN srv' = [srv EXCEPT ![t].pc = "closed"]
       ELSE \/ /\ \A u \in Tasks : ~Bound(u)
               /\ srv' = [srv EXCEPT ![t].pc = "serving"]
            \/ srv' = [srv EXCEPT ![t].pc = "sendErr"]
    /\ UNCHANGED <<otherVars, now, tokenVars, pc, op, loc, nonces, mux, conns, returned, crashed>>

\* A closure that does not compare the state.
HandleAnyState(nonce, st, code) == IF code = "" THEN "nocode" ELSE code

\* What the registered closure decides for a request: the error or the code
\* it goes on to send.
Handle(nonce, st, code) ==
    IF st # nonce THEN "mismatch" ELSE IF code = "" THEN "nocode" ELSE code

\* A request to /callback reaches the listener: its handler runs the
\* registered closure up to its channel send, where it blocks.
Callback(t, st, code) ==
    /\ ~crashed
    /\ Bound(t)
    /\ Len(conns) < MaxCallbacks
    /\ \E n \in mux :
         conns' = Append(conns, [srv |-> t, chan |-> n, state |-> st, pc |-> "send",
                                 msg |-> Handle(n, st, code)])
    /\ UNCHANGED <<otherVars, now, tokenVars, pc, op, loc, nonces, mux, srv, returned, crashed>>

\* The select receives from codeChan or errChan what a handler sends.
AuReceive(t, i) ==
    /\ ~crashed
    /\ pc[t] = "au_select"
    /\ conns[i].pc = "send"
    /\ conns[i].chan = loc[t].nonce
    /\ conns' = [conns EXCEPT ![i].pc = "sent"]
    /\ IF conns[i].msg \in Codes
       THEN loc' = [loc EXCEPT ![t].code = conns[i].msg]
       ELSE loc' = [loc EXCEPT ![t].err = conns[i].msg]
    /\ Goto(t, "au_shutdown")
    /\ UNCHANGED <<otherVars, now, tokenVars, op, nonces, mux, srv, returned, crashed>>

\* The select receives the error ListenAndServe returned.
AuReceiveListenErr(t) ==
    /\ ~crashed
    /\ pc[t] = "au_select"
    /\ srv[t].pc = "sendErr"
    /\ srv' = [srv EXCEPT ![t].pc = "closed"]
    /\ loc' = [loc EXCEPT ![t].err = "listen"]
    /\ Goto(t, "au_shutdown")
    /\ UNCHANGED <<otherVars, now, tokenVars, op, nonces, mux, conns, returned, crashed>>

\* time.After(5 * time.Minute) fires.
AuTimeout(t) ==
    /\ ~crashed
    /\ pc[t] = "au_select"
    /\ loc' = [loc EXCEPT ![t].err = "timeout"]
    /\ Goto(t, "au_shutdown")
    /\ UNCHANGED <<otherVars, now, tokenVars, op, authVars, crashed>>

\* A handler past its send writes its response (if any is left) and returns:
\* its connection becomes idle.
HandlerReturn(i) ==
    /\ ~crashed
    /\ i \in DOMAIN conns
    /\ conns[i].pc = "sent"
    /\ conns' = [conns EXCEPT ![i].pc = "done"]
    /\ UNCHANGED <<otherVars, now, tokenVars, pc, op, loc, nonces, mux, srv, returned, crashed>>

\* An exit path on which server.Shutdown is not called.
ShutdownServerSkipped(s) == s

\* server.Shutdown, first part: the server is marked, its listener closed
\* (Serve returns ErrServerClosed, which the goroutine does not send).
ShutdownServer(s) ==
    [s EXCEPT !.inShutdown = TRUE,
              !.pc = IF s.pc = "serving" THEN "closed" ELSE s.pc]

AuShutdown(t) ==
    /\ ~crashed
    /\ pc[t] = "au_shutdown"
    /\ srv' = [srv EXCEPT ![t] = ShutdownServer(srv[t])]
    /\ Goto(t, "au_wait")
    /\ UNCHANGED <<otherVars, now, tokenVars, op, loc, nonces, mux, conns, returned, crashed>>

\* server.Shutdown(context.Background()), second part: it returns once every
\* connection of the server is idle, that is once every handler has returned.
Quiescent(t) == \A i \in DOMAIN conns : conns[i].srv = t => conns[i].pc = "done"

AuShutdownDone(t) ==
    /\ ~crashed
    /\ pc[t] = "au_wait"
    /\ Quiescent(t)
    /\ IF loc[t].err # ""
       THEN Finish(t, loc[t])
       ELSE Goto(t, "au_exchange") /\ UNCHANGED loc
    /\ UNCHANGED <<otherVars, now, tokenVars, op, authVars, crashed>>

\* a.config.Exchange(ctx, code): one call to the token endpoint, carrying the
\* code the select received.
AuExchangeOk(t) ==
    /\ ~crashed
    /\ pc[t] = "au_exchange"
    /\ issued < MaxIssued
    /\ issued' = issued + 1
    /\ loc' = [loc EXCEPT ![t].newTok = Issue, ![t].x = loc[t].x + 1,
                           ![t].xcode = loc[t].code]
    /\ Goto(t, "au_assign")
    /\ UNCHANGED <<otherVars, now, token, file, client, ctok, saveFailed, op, authVars, crashed>>

AuExchangeFail(t) ==
    /\ ~crashed
    /\ pc[t] = "au_exchange"
    /\ Finish(t, [loc[t] EXCEPT !.err = "exchange", !.x = loc[t].x + 1,
                                !.xcode = loc[t].code])
    /\ UNCHANGED <<otherVars, now, tokenVars, op, authVars, crashed>>

\* -------------------------------------------------- player.PlayerService
\* The token provider is seen through the TokenProvider interface: GetClient
\* returns a client or an error.
PlayerCall(k) ==
    /\ ~crashed
    /\ pl.pc = "idle"
    /\ pl' = [NoPlayer EXCEPT !.client = pl.client, !.pc = "getClient", !.kind = k]
    /\ UNCHANGED <<coreVars, ui, crashed>>

\* p.getClient(): the cached client, or the one tokenProvider.GetClient()
\* returns, which is cached; its error ends the call.
PlayerGetClient ==
    /\ ~crashed
    /\ pl.pc = "getClient"
    /\ \/ pl' = [pl EXCEPT !.client = TRUE, !.pc = "request"]
       \/ /\ ~pl.client
          /\ pl' = [pl EXCEPT !.pc = "done", !.err = "client"]
    /\ UNCHANGED <<coreVars, ui, crashed>>

\* client.Get / client.Do returning an error: no response.
PlayerTransportFail ==
    /\ ~crashed
    /\ pl.pc = "request"
    /\ pl' = [pl EXCEPT !.pc = "done", !.calls = pl.calls + 1, !.err = "transport",
                        !.log = Append(pl.log, pl.kind)]
    /\ UNCHANGED <<coreVars, ui, crashed>>

\* client.Get / client.Do returning a response.
PlayerResponse(r) ==
    /\ ~crashed
    /\ pl.pc = "request"
    /\ pl' = [pl EXCEPT !.pc = "respond", !.calls = pl.calls + 1, !.status = r.status,
                        !.body = r.body, !.playing = r.playing,
                        !.log = Append(pl.log, pl.kind)]
    /\ UNCHANGED <<coreVars, ui, crashed>>

\* GetCurrentlyPlaying on a response: 204 is "nothing playing", any status
\* but 200 is an API error, a 200 is decoded.
QueryOutcome(st, body) ==
    IF st = StatusNoContent THEN ""
    ELSE IF st # StatusOK THEN "api"
    ELSE IF body # "json" THEN "decode"
    ELSE ""

\* Play, Pause, Next, Previous on a response.
CommandOutcome(st, body) ==
    IF st # StatusNoContent /\ st # StatusOK THEN "api" ELSE ""

PlayerResult ==
    /\ ~crashed
    /\ pl.pc = "respond"
    /\ LET e == IF pl.kind = "GetCurrentlyPlaying"
                THEN QueryOutcome(pl.status, pl.body)
                ELSE CommandOutcome(pl.status, pl.body)
       IN pl' = [pl EXCEPT !.pc = "done", !.err = e,
                           !.playing = (pl.kind = "GetCurrentlyPlaying" /\ e = ""
                                        /\ pl.status = StatusOK /\ pl.playing)]
    /\ UNCHANGED <<coreVars, ui, crashed>>

\* PlayPause: "current, err := p.GetCurrentlyPlaying()".
PlayPauseCall ==
    /\ ~crashed
    /\ pl.pc = "idle"
    /\ pl' = [NoPlayer EXCEPT !.client = pl.client, !.pc = "getClient",
                              !.kind = "GetCurrentlyPlaying", !.outer = "PlayPause"]
    /\ UNCHANGED <<coreVars, ui, crashed>>

\* A toggle that plays when something is playing.
ToggleInverted(isPlaying) == IF isPlaying THEN "Play" ELSE "Pause"

\* PlayPause: "if current.IsPlaying { return p.Pause() }; return p.Play()".
Toggle(isPlaying) == IF isPlaying THEN "Pause" ELSE "Play"

\* The query of a PlayPause has returned without error.
QueryAnswered ==
    pl.outer = "PlayPause" /\ pl.pc = "done" /\ pl.kind = "GetCurrentlyPlaying" /\ pl.err = ""

\* PlayPause goes on to the command its query's result selects.
PlayPauseToggle ==
    /\ ~crashed
    /\ QueryAnswered
    /\ pl' = [pl EXCEPT !.pc = "getClient", !.kind = Toggle(pl.playing), !.calls = 0,
                        !.status = 0, !.body = "none", !.playing = FALSE,
                        !.q = IF pl.playing THEN "playing" ELSE "notplaying",
                        !.qstatus = pl.status]
    /\ UNCHANGED <<coreVars, ui, crashed>>

\* An operation returns to its caller; PlayPause returns the error of its
\* query, or what its command returned.
PlayerReturn ==
    /\ ~crashed
    /\ pl.pc = "done"
    /\ ~QueryAnswered
    /\ pl' = [pl EXCEPT !.pc = "idle"]
    /\ UNCHANGED <<coreVars, ui, crashed>>

\* -------------------------------------------------------------- ui.UI
\* The goroutines of the UI: the one running Start and then the event loop
\* of the application (ui.ev), the poll loop updateLoop (ui.poll), the
\* ticker's timer, and the caller of Stop.  The player is seen through the
\* PlayerController interface: each call returns a result or an error.
UiAlive == ~crashed /\ ~ui.exited

\* Start up to "go u.updateLoop()": the poll loop creates its ticker and
\* makes its first call of updateTrackInfo at once.
UiStart ==
    /\ UiAlive
    /\ ui.ev = "none"
    /\ ui' = [ui EXCEPT !.ev = "run", !.poll = "query"]
    /\ UNCHANGED <<coreVars, pl, crashed>>

\* u.app.SetRoot(...).Run(): the event loop starts.
UiRun ==
    /\ UiAlive
    /\ ui.ev = "run"
    /\ ui' = [ui EXCEPT !.ev = "loop", !.app = IF ui.app = "init" THEN "running" ELSE ui.app]
    /\ UNCHANGED <<coreVars, pl, crashed>>

\* The ticker's timer: ticker.C holds at most one tick.
TickerFire ==
    /\ UiAlive
    /\ ui.poll \notin {"none", "exited"}
    /\ ~ui.tick
    /\ ui' = [ui EXCEPT !.tick = TRUE]
    /\ UNCHANGED <<coreVars, pl, crashed>>

\* updateTrackInfo: u.player.FormatTrackInfo() returns the text or an error;
\* either way QueueUpdateDraw is called (directly or in showError), which
\* queues the update and returns once the event loop has run it.
PollQuery(res) ==
    /\ UiAlive
    /\ ui.poll = "query"
    /\ ui' = [ui EXCEPT !.poll = "draw", !.pend = res]
    /\ UNCHANGED <<coreVars, pl, crashed>>

\* The event loop runs the queued update of the poll loop: the text is set
\* and the poll loop's QueueUpdateDraw returns.
EvDraw ==
    /\ UiAlive
    /\ ui.ev = "loop"
    /\ ui.app = "running"
    /\ ui.poll = "draw"
    /\ ui' = [ui EXCEPT !.text = ui.pend, !.pend = "", !.poll = "select"]
    /\ UNCHANGED <<coreVars, pl, crashed>>

\* The select of updateLoop: with a tick in ticker.C it may take the tick,
\* with stopChan closed it may return; with both ready Go picks either.
PollSelectTick ==
    /\ UiAlive
    /\ ui.poll = "select"
    /\ ui.tick
    /\ ui' = [ui EXCEPT !.tick = FALSE, !.poll = "query",
                        !.late = ui.late \/ ui.closed,
                        !.afterQuit = ui.afterQuit \/ ui.quit]
    /\ UNCHANGED <<coreVars, pl, crashed>>

PollSelectStop ==
    /\ UiAlive
    /\ ui.poll = "select"
    /\ ui.closed
    /\ ui' = [ui EXCEPT !.poll = "exited"]
    /\ UNCHANGED <<coreVars, pl, crashed>>

\* The input capture, case 'q': u.app.Stop().
KeyQuit ==
    /\ UiAlive
    /\ ui.ev = "loop"
    /\ ui.app = "running"
    /\ ui.keys < MaxKeys
    /\ ui' = [ui EXCEPT !.app = "stopped", !.quit = TRUE, !.keys = ui.keys + 1]
    /\ UNCHANGED <<coreVars, pl, crashed>>

\* The input capture, cases 'p', 'n', 'b', and the buttons: the handler
\* calls the player on the goroutine of the event loop.
KeyCommand ==
    /\ UiAlive
    /\ ui.ev = "loop"
    /\ ui.app = "running"
    /\ ui.keys < MaxKeys
    /\ ui' = [ui EXCEPT !.ev = "cmd", !.keys = ui.keys + 1]
    /\ UNCHANGED <<coreVars, pl, crashed>>

\* The player's call returns nil: the handler returns to the event loop.
CmdOk ==
    /\ UiAlive
    /\ ui.ev = "cmd"
    /\ ui' = [ui EXCEPT !.ev = "loop"]
    /\ UNCHANGED <<coreVars, pl, crashed>>

\* The player's call returns an error: the handler calls showError, whose
\* QueueUpdateDraw waits for the event loop to run the update; the event
\* loop is the goroutine that waits.
CmdErr ==
    /\ UiAlive
    /\ ui.ev = "cmd"
    /\ ui' = [ui EXCEPT !.ev = "blocked"]
    /\ UNCHANGED <<coreVars, pl, crashed>>

\* Run returns once the application is stopped, and Start with it.
EvEnd ==
    /\ UiAlive
    /\ ui.ev = "loop"
    /\ ui.app = "stopped"
    /\ ui' = [ui EXCEPT !.ev = "ended"]
    /\ UNCHANGED <<coreVars, pl, crashed>>

\* UI.Stop, "close(u.stopChan)": closing a closed channel panics.
StopClose ==
    /\ UiAlive
    /\ ui.stoppc = "idle"
    /\ ui.stops < MaxStops
    /\ IF ui.closed
       THEN /\ crashed' = TRUE
            /\ ui' = [ui EXCEPT !.stops = ui.stops + 1]
       ELSE /\ ui' = [ui EXCEPT !.closed = TRUE, !.stoppc = "closed", !.stops = ui.stops + 1]
            /\ UNCHANGED crashed
    /\ UNCHANGED <<coreVars, pl>>

\* UI.Stop, "u.app.Stop()": a no-op on an application that is not running.
StopApp ==
    /\ UiAlive
    /\ ui.stoppc = "closed"
    /\ ui' = [ui EXCEPT !.stoppc = "idle",
                        !.app = IF ui.app = "running" THEN "stopped" ELSE ui.app]
    /\ UNCHANGED <<coreVars, pl, crashed>>

\* main returns after userInterface.Stop(): the process ends.
MainExit ==
    /\ UiAlive
    /\ ui.stops > 0
    /\ ui.stoppc = "idle"
    /\ ui' = [ui EXCEPT !.exited = TRUE]
    /\ UNCHANGED <<coreVars, pl, crashed>>

\* --------------------------------------------------------- specifications
\* The steps of a call into the token service, once it is made.
TokenStep(t) ==
    \/ LtRead(t)
    \/ LtParse(t)
    \/ HvStart(t)
    \/ HvCheck(t)
    \/ GtStart(t)
    \/ GtCheck(t)
    \/ GtRefreshOk(t)
    \/ GtRefreshFail(t)
    \/ GtReturn(t)
    \/ PlStart(t)
    \/ PlSet(t)
    \/ PlRequest(t)
    \/ PlRequestRefresh(t)
    \/ PlRequestFail(t)

SaveStep(t) ==
    \/ Assign(t)
    \/ SvBuild(t)
    \/ SvFail(t)
    \/ SvOpen(t)
    \/ SvWrite(t)

\* The steps of an Authenticate call and of its server goroutine.
AuthStep(t) ==
    \/ AuStateFail(t)
    \/ AuRegister(t)
    \/ AuRegisterPanic(t)
    \/ SrvListen(t)
    \/ \E i \in DOMAIN conns : AuReceive(t, i)
    \/ AuReceiveListenErr(t)
    \/ AuTimeout(t)
    \/ AuShutdown(t)
    \/ AuShutdownDone(t)
    \/ AuExchangeOk(t)
    \/ AuExchangeFail(t)

Request(t) == \E st \in 0..nonces, code \in Codes \cup {""} : Callback(t, st, code)

\* The session: the stored token is used by the command path and the poll
\* loop while the clock runs.
NextToken ==
    \/ Tick
    \/ \E t \in Tasks :
        \/ CallHasValidToken(t)
        \/ CallGetToken(t)
        \/ CallPlayback(t)
        \/ Return(t)
        \/ TokenStep(t)
        \/ SaveStep(t)

SpecToken == Init /\ [][NextToken]_vars

\* The login: Authenticate is called, requests reach /callback.
NextAuth ==
    \/ \E t \in Tasks :
        \/ CallAuthenticate(t)
        \/ Return(t)
        \/ AuthStep(t)
        \/ SaveStep(t)
        \/ Request(t)
    \/ \E i \in DOMAIN conns : HandlerReturn(i)

SpecAuth == Init /\ [][NextAuth]_vars

\* Every goroutine that can run does run, and the timer fires; when calls
\* are made and which requests arrive is up to the environment.
FairAuth ==
    /\ \A t \in Tasks : WF_vars(AuthStep(t) \/ SaveStep(t))
    /\ WF_vars(\E i \in DOMAIN conns : HandlerReturn(i))

FairSpecAuth == SpecAuth /\ FairAuth

\* Sequential use: one goroutine calls the operations one after another, as
\* main does before the UI starts (HasValidToken, Authenticate, GetToken).
Main == "cmd"

NextSeq ==
    \/ Tick
    \/ CallHasValidToken(Main)
    \/ CallGetToken(Main)
    \/ CallPlayback(Main)
    \/ CallAuthenticate(Main)
    \/ Return(Main)
    \/ TokenStep(Main)
    \/ SaveStep(Main)
    \/ AuthStep(Main)
    \/ Request(Main)
    \/ \E i \in DOMAIN conns : HandlerReturn(i)

SpecSeq == Init /\ [][NextSeq]_vars

\* The steps of the poll loop, of the event loop and of a call of Stop.
PollStep == (\E res \in {"track", "error"} : PollQuery(res)) \/ PollSelectTick \/ PollSelectStop
EventStep == UiRun \/ EvDraw \/ EvEnd \/ CmdOk \/ CmdErr
StopStep == StopClose \/ StopApp

\* The UI: Start is called, the ticker runs, the user presses keys, Stop is
\* called, the process ends.
NextUI ==
    \/ UiStart
    \/ TickerFire
    \/ PollStep
    \/ EventStep
    \/ KeyQuit
    \/ KeyCommand
    \/ StopStep
    \/ MainExit

SpecUI == Init /\ [][NextUI]_vars

\* The goroutines of the UI run when they can, the ticker keeps firing and a
\* call of the player returns; keys and Stop are up to the environment.
FairUI == WF_vars(PollStep) /\ WF_vars(EventStep) /\ WF_vars(TickerFire) /\ WF_vars(StopApp)

FairSpecUI == SpecUI /\ FairUI

\* The player: its operations are called one at a time and answered.
NextPlayer ==
    \/ \E k \in Kinds : PlayerCall(k)
    \/ PlayPauseCall
    \/ PlayPauseToggle
    \/ PlayerGetClient
    \/ PlayerTransportFail
    \/ \E r \in Responses : PlayerResponse(r)
    \/ PlayerResult
    \/ PlayerReturn

SpecPlayer == Init /\ [][NextPlayer]_vars

Next == NextToken \/ NextAuth \/ NextUI \/ NextPlayer

Spec == Init /\ [][Next]_vars

\* ------------------------------------------------------------ properties
Returned(t, o) == pc[t] = "done" /\ op[t] = o
Succeeded(t, o) == Returned(t, o) /\ loc[t].err = ""

\* The requests accepted in t's current login attempt.
Requests(t) == {i \in DOMAIN conns : conns[i].srv = t /\ conns[i].chan = loc[t].nonce}
\* A request whose state differs from the one generated for the attempt.
Forged(i) == conns[i].state # conns[i].chan

\* C1: whenever Authenticate has returned, by any path, the listener it
\* started is no longer bound: a task's listener is bound only while that
\* task is inside Authenticate and has not returned.
C1_ListenerClosedOnReturn ==
    \A t \in Tasks : Bound(t) => (op[t] = "Authenticate" /\ pc[t] # "done")

\* C1 witness: Authenticate has returned the no-code error of a request its
\* listener accepted, and the server is shut down.
C1_Witness ==
    \E t \in Tasks :
        /\ Returned(t, "Authenticate")
        /\ loc[t].err = "nocode"
        /\ Requests(t) # {}
        /\ srv[t] = [pc |-> "closed", inShutdown |-> TRUE]

\* C2: under fairness every call of Authenticate that has reached its select
\* eventually returns (or the process has ended), whatever requests arrive.
C2_AuthenticateReturns ==
    \A t \in Tasks : (pc[t] = "au_select") ~> (pc[t] = "done" \/ crashed)

\* C3: once an Authenticate call has returned the no-code error, a call of
\* Authenticate made after it registers its handler and runs: it does not
\* end the process.
C3_SecondLoginRuns ==
    \A t \in Tasks :
        (op[t] = "Authenticate" /\ "nocode" \in loc[t].prior) => ~crashed

Pending(t) == pc[t] \in {"au_select", "au_shutdown", "au_wait"}

\* C5: at most one login attempt is pending at a time, with at most one
\* handler registered for /callback and at most one listener bound.
C5_OnePendingLogin ==
    /\ Cardinality({t \in Tasks : Pending(t)}) <= 1
    /\ Cardinality(mux) <= 1
    /\ Cardinality({t \in Tasks : Bound(t)}) <= 1

\* C5 witness: while one attempt waits for its callback, a second call of
\* Authenticate has failed at once, at its registration.
C5_Witness ==
    \E t, u \in Tasks :
        /\ pc[t] = "au_select" /\ Bound(t)
        /\ pc[u] = "au_state"
        /\ crashed

Quiet == \A t \in Tasks : pc[t] \in {"idle", "done"}

\* C6: whenever no call is in progress and no write of the file has failed,
\* a token record in the file holds the credential the provider issued last.
C6_FileHoldsLatestCredential ==
    (Quiet /\ ~saveFailed /\ file.kind = "record" /\ file.token # Nil)
        => file.token.access = issued

\* C7: a GetToken that found an expired token with a refresh credential and
\* succeeded made exactly one refresh call, returns a token that expires
\* later than the one it found, and that token is the one in the file.
C7_RefreshOncePersisted ==
    \A t \in Tasks :
        (Succeeded(t, "GetToken") /\ loc[t].old # Nil) =>
            /\ loc[t].n = 1
            /\ loc[t].ret # Nil
            /\ loc[t].ret.expiry > loc[t].old.expiry
            /\ loc[t].saved
            /\ file.kind = "record"
            /\ file.token = loc[t].ret

\* C8: GetToken never returns success together with an absent token.
C8_NoSuccessWithoutToken ==
    \A t \in Tasks : Succeeded(t, "GetToken") => loc[t].ret # Nil

\* C9: no two tasks refresh the same expired token: the calls into
\* getClient, GetClient and GetToken do not overlap.
C9_NoDoubleRefresh ==
    \A t, u \in Tasks :
        (t # u /\ loc[t].n > 0 /\ loc[u].n > 0 /\ loc[t].old.refresh /\ loc[u].old.refresh)
            => loc[t].old # loc[u].old

\* C10: a load never reads the file half-written.
C10_LoadSeesWholeRecord ==
    \A t \in Tasks : pc[t] = "lt_parse" => loc[t].data # Partial

\* The requests whose message the select of t's current attempt has received.
Received(t) == {i \in Requests(t) : conns[i].pc \in {"sent", "done"}}

\* C11: a login that got a code got it from a callback with the matching
\* state; it calls the exchange only once the server is shut down (listener
\* closed, every handler returned), at most once and with that code; nothing
\* is assigned or written before the exchange; and when Authenticate returns
\* success, exactly one exchange was made and the file holds the token it
\* returned together with the configured client identifier.
C11_LoginOrder ==
    \A t \in Tasks :
        op[t] = "Authenticate" =>
            /\ loc[t].code # "" =>
                    \E i \in Received(t) : ~Forged(i) /\ conns[i].msg = loc[t].code
            /\ (pc[t] \in {"au_exchange", "au_assign", "sv_build", "sv_open", "sv_write"}
                    \/ loc[t].x > 0) =>
                    /\ loc[t].code # ""
                    /\ srv[t].inShutdown
                    /\ ~Bound(t)
                    /\ Quiescent(t)
            /\ loc[t].x <= 1
            /\ loc[t].x = 1 => loc[t].xcode = loc[t].code
            /\ pc[t] \in {"au_select", "au_shutdown", "au_wait", "au_exchange"} =>
                    /\ token = Nil
                    /\ file \in InitFiles
            /\ pc[t] \in {"au_assign", "sv_build", "sv_open", "sv_write"} => loc[t].x = 1
            /\ Succeeded(t, "Authenticate") =>
                    /\ loc[t].x = 1
                    /\ loc[t].saved
                    /\ token # Nil
                    /\ token.access = issued
                    /\ file.kind = "record"
                    /\ file.token = token
                    /\ file.client_id = ClientID

\* C11 witness: Authenticate has returned success after exchanging the code
\* of a callback, and the record is in the file.
C11_Witness ==
    \E t \in Tasks :
        /\ Succeeded(t, "Authenticate")
        /\ loc[t].xcode = "CODE2"
        /\ \E i \in Received(t) : conns[i].msg = "CODE2"
        /\ file.kind = "record"
        /\ file.client_id = ClientID

\* C12: when the timeout fires with no callback arrived in the attempt,
\* Authenticate returns the timeout error (unless a panic ends the process).
C12_TimeoutReturns ==
    \A t \in Tasks :
        (pc[t] = "au_shutdown" /\ loc[t].err = "timeout" /\ Requests(t) = {})
            ~> ((Returned(t, "Authenticate") /\ loc[t].err = "timeout") \/ crashed)

\* The step in which t's exchange or refresh fails.
FailsNow(t) ==
    /\ pc[t] \in {"au_exchange", "gt_refresh"}
    /\ pc'[t] = "done"

\* C13: the step in which the exchange or the refresh fails ends the call
\* with that error, after the one call of the library's Exchange or Token
\* (which sends one request, or none when there is no refresh credential),
\* and changes neither the token in memory nor the file.
C13_FailureIsSurfacedOnce ==
    [][\A t \in Tasks :
          FailsNow(t) =>
              /\ token' = token
              /\ file' = file
              /\ issued' = issued
              /\ loc'[t].err = (IF pc[t] = "au_exchange" THEN "exchange" ELSE "refresh")
              /\ pc[t] = "au_exchange" => (loc[t].x = 0 /\ loc'[t].x = 1)
              /\ pc[t] = "gt_refresh" =>
                      /\ loc[t].n = 0
                      /\ loc'[t].n = (IF loc[t].old.refresh THEN 1 ELSE 0)
                      /\ token = loc[t].old]_vars

\* C13 witness: after an Authenticate that failed at the exchange, GetToken
\* has returned the error of the one refresh request it sent.
C13_Witness ==
    /\ "exchange" \in returned
    /\ Returned(Main, "GetToken")
    /\ loc[Main].err = "refresh"
    /\ loc[Main].n = 1
    /\ token = loc[Main].old

\* C14: no poll is started once Stop has closed the stop channel: the select
\* of the poll loop never takes a tick while the channel is closed.
C14_NoPollAfterStop == ~ui.late

\* A stop has been requested: Stop was called, the quit key was handled, or
\* the process has ended.
StopRequested == ui.closed \/ ui.quit \/ ui.exited \/ crashed

\* C15: whatever calls have failed, a tick that fires while no stop is
\* requested leads to a poll (or to a stop being requested).
C15_KeepsPolling ==
    (ui.tick /\ ~StopRequested) ~> (ui.poll = "query" \/ StopRequested)

\* C20: after the quit key is handled the poll loop issues no further query,
\* and no call of Stop fails.
C20_EndingStopsPolling ==
    /\ ~ui.afterQuit
    /\ ui.stops > 0 => ~crashed

Is2xx(st) == st \div 100 = 2

\* C19: an operation of the player that has returned made exactly one REST
\* call (none when no client could be had), returns an error exactly when
\* there was no response or its status is not 2xx, and a 204 to the
\* currently-playing query gives "not playing" without error.
C19_OneCallErrorIffNot2xx ==
    pl.pc = "done" =>
        /\ pl.calls = (IF pl.err = "client" THEN 0 ELSE 1)
        /\ (pl.err # "") <=> (pl.status = 0 \/ ~Is2xx(pl.status))
        /\ (pl.kind = "GetCurrentlyPlaying" /\ pl.status = StatusNoContent) =>
                (pl.err = "" /\ ~pl.playing)

C17_LoadOutcomes ==
    [][\A t \in Tasks :
          /\ (pc[t] = "lt_read" /\ pc'[t] # "lt_read" /\ file = Absent) =>
                  (loc'[t].err = "" /\ token' = token)
          /\ (pc[t] = "lt_parse" /\ pc'[t] # "lt_parse" /\ loc[t].data.kind # "record") =>
                  (loc'[t].err # "" /\ token' = token)]_vars

\* C18: when the file holds a token whose expiry is in the future, however
\* near, a HasValidToken that has returned returned true, made no refresh
\* call and left a token in memory.
C18_FutureExpiryIsValid ==
    \A t \in Tasks :
        (Returned(t, "HasValidToken") /\ file.kind = "record" /\ file.token # Nil
            /\ file.token.expiry > now) =>
                /\ loc[t].ok
                /\ loc[t].n = 0
                /\ token # Nil

\* PlayPause is about to return: its query failed, or its command is done.
PlayPauseDone == pl.outer = "PlayPause" /\ pl.pc = "done" /\ ~QueryAnswered

\* C21: PlayPause sends the currently-playing query first and at most one
\* transport command after it; the command is Pause exactly when the query
\* reported isPlaying true and Play otherwise (a 204 reports not playing);
\* when the query fails PlayPause returns that error having sent no command;
\* when the query succeeds PlayPause returns after exactly one command.
C21_PlayPauseToggles ==
    pl.outer = "PlayPause" =>
        /\ Len(pl.log) <= 2
        /\ Len(pl.log) >= 1 => pl.log[1] = "GetCurrentlyPlaying"
        /\ Len(pl.log) = 2 =>
                /\ pl.q # "none"
                /\ pl.log[2] = (IF pl.q = "playing" THEN "Pause" ELSE "Play")
                /\ pl.log[2] = pl.kind
        /\ pl.qstatus = StatusNoContent => pl.q = "notplaying"
        /\ pl.q # "none" => pl.kind = (IF pl.q = "playing" THEN "Pause" ELSE "Play")
        /\ PlayPauseDone =>
                IF pl.q = "none"
                THEN /\ pl.kind = "GetCurrentlyPlaying"
                     /\ pl.err # ""
                     /\ Len(pl.log) <= 1
                ELSE Len(pl.log) = 2

\* C21 witness: a PlayPause whose query was answered 204 has sent Play and
\* is about to return.
C21_Witness ==
    /\ PlayPauseDone
    /\ pl.qstatus = StatusNoContent
    /\ pl.log = <<"GetCurrentlyPlaying", "Play">>
    /\ pl.err = ""

====
